---- MODULE Spec2Model ----
(***************************************************************************)
(* Notebook state manager (src/lib/contexts/notebook-context.tsx).         *)
(*                                                                         *)
(* The provider keeps two pieces of React state, notebook and              *)
(* selectedBlockId.  The handlers selectBlock, updateBlock and createBlock *)
(* are closures created by a render of the provider: they read the         *)
(* notebook value of that render (variable rendered) and write the         *)
(* committed state (variable notebook) through setNotebook.  A render      *)
(* makes the committed value the one the next handlers read.               *)
(*                                                                         *)
(* Block objects live in a heap, because createBlock changes the position  *)
(* of the block objects of the notebook it read in place, and arrays of    *)
(* different notebook values share those objects.                          *)
(*                                                                         *)
(* File access endpoint (src/app/api/files/[...path]/route.ts): GET and    *)
(* DELETE hand the joined path to the storage service and turn its result  *)
(* into a response.  The endpoint shares no state with the provider and    *)
(* has its own specification, RouteSpec.                                   *)
(***************************************************************************)
EXTENDS Integers, Sequences, FiniteSets, TLC

\* ---------------------------------------------------------------- bounds
\* number of handler calls (selectBlock, updateBlock, createBlock) in a behaviour
MaxCalls == 2
\* explicit position arguments are drawn from 0..MaxPos
MaxPos == 1

\* ------------------------------------------------------------- constants
\* the JavaScript values null (of useState<Notebook | null>) and undefined
null == [null |-> TRUE]
nullId == -1
undefined == -1
NoError == ""
\* an identifier no block ever carries unless an update payload puts it there
GhostId == 0

BlockTypes == {"markdown", "python", "csv"}
Positions == 0..MaxPos

VARIABLES
  heap,             \* block objects: address -> block record
  notebook,         \* committed React state: null or [id, blocks, files]
  selectedBlockId,  \* committed React state: nullId or a block id
  rendered,         \* the notebook value the current handler closures read
  fetches,          \* POST /api/files requests: block id -> [path, content, status]
  returned,         \* identifiers createBlock's promise has resolved with
  consoleErrors,    \* block ids whose file creation failure was logged
  nextId,           \* state of the identifier generator
  clock,            \* wall clock
  calls,            \* number of handler calls made
  lastCall,         \* the last handler call: its name and arguments
  thrown,           \* the error the last handler call threw, NoError if none
  storage,          \* files the storage service holds: joined path -> content
  storageCall,      \* the endpoint's last call of the storage service and how it ended
  response,         \* the endpoint's last response: [status, body]
  serverErrors      \* console.error lines of the endpoint: [msg, path]

nbVars == <<heap, notebook, selectedBlockId, rendered, fetches, returned,
            consoleErrors, nextId, clock, calls, lastCall, thrown>>

routeVars == <<storage, storageCall, response, serverErrors>>

vars == <<nbVars, routeVars>>

\* ---------------------------------------------------------------- heap
Range(s) == {s[i] : i \in 1..Len(s)}

\* a new object gets the smallest address not in use
Alloc(h) == CHOOSE a \in 1..(Cardinality(DOMAIN h) + 1) :
              /\ a \notin DOMAIN h
              /\ \A b \in 1..(a - 1) : b \in DOMAIN h

BlocksOf(nb) == IF nb = null THEN {} ELSE Range(nb.blocks)

\* objects no notebook value refers to any more are dropped
Collect(h, nb, rn) == [a \in DOMAIN h \cap (BlocksOf(nb) \cup BlocksOf(rn)) |-> h[a]]

\* ------------------------------------------------------- pure helpers
\* type === 'markdown' ? 'md' : type === 'python' ? 'py' : 'csv'
Ext(type) == IF type = "markdown" THEN "md" ELSE IF type = "python" THEN "py" ELSE "csv"

\* `${notebook.id}/${id}.${ext}`
filePath(nbId, id, type) == <<nbId, "/", id, ".", Ext(type)>>

\* mutant of newBlock: the python branch is missing, the request falls through to csv
newBlockUntyped(type, id, path, newPosition, now) ==
  IF type = "markdown"
    THEN [id |-> id, type |-> "markdown", filePath |-> path, position |-> newPosition,
          created |-> now, updated |-> now, editMode |-> TRUE]
    ELSE [id |-> id, type |-> "csv", filePath |-> path, position |-> newPosition,
          created |-> now, updated |-> now]

\* the block literal built for the requested type
newBlock(type, id, path, newPosition, now) ==
  IF type = "markdown"
    THEN [id |-> id, type |-> "markdown", filePath |-> path, position |-> newPosition,
          created |-> now, updated |-> now, editMode |-> TRUE]
    ELSE IF type = "python"
      THEN [id |-> id, type |-> "python", filePath |-> path, position |-> newPosition,
            created |-> now, updated |-> now, output |-> "", isExecuting |-> FALSE]
      ELSE [id |-> id, type |-> "csv", filePath |-> path, position |-> newPosition,
            created |-> now, updated |-> now]

\* object spread { ...block, ...updates }: the keys of updates win
Spread(block, updates) ==
  [k \in DOMAIN block \cup DOMAIN updates |->
     IF k \in DOMAIN updates THEN updates[k] ELSE block[k]]

\* mutant of mapBlock: the test on the id is inverted
mapBlockInverted(block, id, updates) ==
  IF block.id = id THEN [same |-> TRUE, value |-> block]
  ELSE [same |-> FALSE, value |-> Spread(block, updates)]

\* the callback of notebook.blocks.map in updateBlock: the block itself (same object)
\* when the id differs, else a new object; the casts are erased at run time
mapBlock(block, id, updates) ==
  IF block.id # id THEN [same |-> TRUE, value |-> block]
  ELSE IF block.type = "markdown" THEN [same |-> FALSE, value |-> Spread(block, updates)]
  ELSE IF block.type = "python" THEN [same |-> FALSE, value |-> Spread(block, updates)]
  ELSE [same |-> FALSE, value |-> Spread(block, updates)]

\* notebook.blocks.map(...): returns the new array and the heap with the new objects
RECURSIVE mapBlocks(_, _, _, _, _)
mapBlocks(blocks, i, h, id, updates) ==
  IF i > Len(blocks) THEN [blocks |-> blocks, heap |-> h]
  ELSE LET r == mapBlock(h[blocks[i]], id, updates)
           a == Alloc(h)
       IN  IF r.same
             THEN mapBlocks(blocks, i + 1, h, id, updates)
             ELSE mapBlocks([blocks EXCEPT ![i] = a], i + 1, (a :> r.value) @@ h,
                            id, updates)

\* mutant of shiftLoop: > instead of >=, the block at the target position stays
RECURSIVE shiftLoopStrict(_, _, _, _)
shiftLoopStrict(updatedBlocks, i, h, newPosition) ==
  IF i > Len(updatedBlocks) THEN h
  ELSE IF h[updatedBlocks[i]].position > newPosition
    THEN shiftLoopStrict(updatedBlocks, i + 1,
                         [h EXCEPT ![updatedBlocks[i]].position = @ + 1], newPosition)
    ELSE shiftLoopStrict(updatedBlocks, i + 1, h, newPosition)

\* for (i = 0; i < updatedBlocks.length; i++) if (position >= newPosition) position += 1
RECURSIVE shiftLoop(_, _, _, _)
shiftLoop(updatedBlocks, i, h, newPosition) ==
  IF i > Len(updatedBlocks) THEN h
  ELSE IF h[updatedBlocks[i]].position >= newPosition
    THEN shiftLoop(updatedBlocks, i + 1,
                   [h EXCEPT ![updatedBlocks[i]].position = @ + 1], newPosition)
    ELSE shiftLoop(updatedBlocks, i + 1, h, newPosition)

\* mutant of compare: descending order
compareDescending(h, a, b) == h[b].position - h[a].position

\* the comparator (a, b) => a.position - b.position
compare(h, a, b) == h[a].position - h[b].position

\* Array.prototype.sort is stable: a goes before the first element that compares greater
RECURSIVE insertSorted(_, _, _)
insertSorted(sorted, a, h) ==
  IF sorted = <<>> THEN <<a>>
  ELSE IF compare(h, Head(sorted), a) > 0 THEN <<a>> \o sorted
  ELSE <<Head(sorted)>> \o insertSorted(Tail(sorted), a, h)

RECURSIVE sortBlocks(_, _, _)
sortBlocks(blocks, i, h) ==
  IF i = 0 THEN <<>>
  ELSE insertSorted(sortBlocks(blocks, i - 1, h), blocks[i], h)

\* ------------------------------------------------------------ inputs
\* notebooks the page hands to setNotebook: an empty one and one with two blocks
EmptyNotebook == [id |-> "nb1", blocks |-> <<>>, files |-> <<>>]

LoadedBlocks ==
  << newBlock("markdown", 101, filePath("nb2", 101, "markdown"), 0, 0),
     newBlock("python", 102, filePath("nb2", 102, "python"), 1, 0) >>

LoadedNotebook ==
  [id |-> "nb2", blocks |-> <<1, 2>>,
   files |-> << [path |-> filePath("nb2", 101, "markdown"), type |-> "markdown"],
                [path |-> filePath("nb2", 102, "python"), type |-> "python"] >>]

\* identifiers a caller can pass: those of the blocks it can see, and one of no block
KnownIds == {heap[a].id : a \in DOMAIN heap \cap BlocksOf(rendered)} \cup {GhostId}

\* update payloads (Partial of the block variants)
Payloads ==
  { [editMode |-> FALSE],
    [position |-> 0],
    [type |-> "csv"],
    [id |-> 101] }

\* request paths (params.path, an array of segments)
RoutePaths == {<<"a", "b.txt">>, <<"c.md">>}

\* params.path.join('/')
RECURSIVE join(_)
join(path) ==
  IF path = <<>> THEN <<>>
  ELSE IF Len(path) = 1 THEN path
  ELSE <<Head(path), "/">> \o join(Tail(path))

\* the files the storage service holds at the start
StoredFiles == (join(<<"a", "b.txt">>) :> "text of b") @@ (join(<<"c.md">>) :> "text of c")

\* how a call of the storage service can end for a path: getFile has no content to
\* give for a file it does not hold; any call can fail for another reason
getFileOutcomes(path) ==
  IF path \in DOMAIN storage THEN {"ok", "ioError"} ELSE {"notFound", "ioError"}

deleteFileOutcomes(path) ==
  IF path \in DOMAIN storage THEN {"ok", "ioError"} ELSE {"ok", "notFound", "ioError"}

\* ------------------------------------------------------------- state
Init ==
  /\ heap = <<>>
  /\ notebook = null
  /\ selectedBlockId = nullId
  /\ rendered = null
  /\ fetches = <<>>
  /\ returned = {}
  /\ consoleErrors = {}
  /\ nextId = 1
  /\ clock = 0
  /\ calls = 0
  /\ lastCall = [op |-> "none"]
  /\ thrown = NoError
  /\ storage = StoredFiles
  /\ storageCall = [op |-> "none"]
  /\ response = [status |-> 0]
  /\ serverErrors = {}

\* setNotebook(nb) by the page that loads a notebook
setNotebook(nb) ==
  /\ notebook = null
  /\ notebook' = nb
  /\ heap' = IF nb = LoadedNotebook
               THEN (1 :> LoadedBlocks[1]) @@ (2 :> LoadedBlocks[2])
               ELSE heap
  /\ UNCHANGED <<selectedBlockId, rendered, fetches, returned, consoleErrors, nextId, clock,
                 calls, lastCall, thrown>>
  /\ UNCHANGED routeVars

\* a render of the provider: new closures over the committed notebook
render ==
  /\ rendered # notebook
  /\ rendered' = notebook
  /\ heap' = Collect(heap, notebook, notebook)
  /\ UNCHANGED <<notebook, selectedBlockId, fetches, returned, consoleErrors, nextId,
                 clock, calls, lastCall, thrown>>
  /\ UNCHANGED routeVars

\* mutant of selectBlock: an id that no block of the notebook carries is ignored
selectBlockValidated(id) ==
  /\ calls < MaxCalls
  /\ calls' = calls + 1
  /\ lastCall' = [op |-> "selectBlock", id |-> id]
  /\ selectedBlockId' =
       IF id = nullId \/ \E a \in DOMAIN heap \cap BlocksOf(rendered) : heap[a].id = id
         THEN id ELSE selectedBlockId
  /\ thrown' = NoError
  /\ UNCHANGED <<heap, notebook, rendered, fetches, returned, consoleErrors, nextId, clock>>
  /\ UNCHANGED routeVars

selectBlock(id) ==
  /\ calls < MaxCalls
  /\ calls' = calls + 1
  /\ lastCall' = [op |-> "selectBlock", id |-> id]
  /\ selectedBlockId' = id
  /\ thrown' = NoError
  /\ UNCHANGED <<heap, notebook, rendered, fetches, returned, consoleErrors, nextId, clock>>
  /\ UNCHANGED routeVars

updateBlock(id, updates) ==
  /\ calls < MaxCalls
  /\ calls' = calls + 1
  /\ lastCall' = [op |-> "updateBlock", id |-> id, updates |-> updates]
  /\ thrown' = NoError
  /\ IF rendered = null
       THEN UNCHANGED <<heap, notebook>>
       ELSE LET m == mapBlocks(rendered.blocks, 1, heap, id, updates)
                nb == [rendered EXCEPT !.blocks = m.blocks]
            IN  /\ notebook' = nb
                /\ heap' = Collect(m.heap, nb, rendered)
  /\ UNCHANGED <<selectedBlockId, rendered, fetches, returned, consoleErrors, nextId, clock>>
  /\ UNCHANGED routeVars

\* mutant of newPositionOf: a truthiness test, which takes position 0 for an omitted one
newPositionOfTruthy(position, blocks) ==
  IF position # undefined /\ position # 0 THEN position ELSE Len(blocks)

\* position !== undefined ? position : notebook.blocks.length
newPositionOf(position, blocks) ==
  IF position # undefined THEN position ELSE Len(blocks)

\* mutant of adjustPositions: the renumbering loop runs for an omitted position too
adjustPositionsAlways(position, updatedBlocks, h, newPosition) ==
  shiftLoop(updatedBlocks, 1, h, newPosition)

\* if (position !== undefined) { the renumbering loop }
adjustPositions(position, updatedBlocks, h, newPosition) ==
  IF position # undefined THEN shiftLoop(updatedBlocks, 1, h, newPosition) ELSE h

\* generateUUID(): an identifier not handed out before
generateUUID == nextId

\* mutant of createBlockOn: the file descriptor is put in front of the file list
createBlockOnFileFirst(nb, type, position) ==
  LET id == generateUUID
      newPosition == newPositionOf(position, nb.blocks)
      path == filePath(nb.id, id, type)
      shifted == adjustPositions(position, nb.blocks, heap, newPosition)
      a == Alloc(shifted)
      h == (a :> newBlock(type, id, path, newPosition, clock)) @@ shifted
      pushed == Append(nb.blocks, a)
      next == [nb EXCEPT !.blocks = sortBlocks(pushed, Len(pushed), h),
                         !.files = <<[path |-> path, type |-> type]>> \o @]
  IN  /\ notebook' = next
      /\ heap' = Collect(h, next, rendered)
      /\ fetches' = (id :> [path |-> path, content |-> "", status |-> "pending"]) @@ fetches
      /\ nextId' = nextId + 1
      /\ clock' = clock + 1
      /\ thrown' = NoError
      /\ UNCHANGED <<selectedBlockId, rendered, returned, consoleErrors>>

\* mutant of createBlockOn: the fetch is not awaited, the id is returned at once
createBlockOnUnawaited(nb, type, position) ==
  LET id == generateUUID
      newPosition == newPositionOf(position, nb.blocks)
      path == filePath(nb.id, id, type)
      shifted == adjustPositions(position, nb.blocks, heap, newPosition)
      a == Alloc(shifted)
      h == (a :> newBlock(type, id, path, newPosition, clock)) @@ shifted
      pushed == Append(nb.blocks, a)
      next == [nb EXCEPT !.blocks = sortBlocks(pushed, Len(pushed), h),
                         !.files = Append(@, [path |-> path, type |-> type])]
  IN  /\ notebook' = next
      /\ heap' = Collect(h, next, rendered)
      /\ fetches' = (id :> [path |-> path, content |-> "", status |-> "pending"]) @@ fetches
      /\ returned' = returned \cup {id}
      /\ nextId' = nextId + 1
      /\ clock' = clock + 1
      /\ thrown' = NoError
      /\ UNCHANGED <<selectedBlockId, rendered, consoleErrors>>

\* createBlock on a loaded notebook nb, up to its await: the new block, the
\* renumbering, the sort, setNotebook and the fetch request
createBlockOn(nb, type, position) ==
  LET now == clock
      id == generateUUID
      newPosition == newPositionOf(position, nb.blocks)
      path == filePath(nb.id, id, type)
      shifted == adjustPositions(position, nb.blocks, heap, newPosition)
      a == Alloc(shifted)
      h == (a :> newBlock(type, id, path, newPosition, now)) @@ shifted
      pushed == Append(nb.blocks, a)
      updatedBlocks == sortBlocks(pushed, Len(pushed), h)
      next == [nb EXCEPT !.blocks = updatedBlocks,
                         !.files = Append(@, [path |-> path, type |-> type])]
  IN  /\ notebook' = next
      /\ heap' = Collect(h, next, rendered)
      /\ fetches' = (id :> [path |-> path, content |-> "", status |-> "pending"]) @@ fetches
      /\ nextId' = nextId + 1
      /\ clock' = clock + 1
      /\ thrown' = NoError
      /\ UNCHANGED <<selectedBlockId, rendered, returned, consoleErrors>>

\* mutant of createBlock: no guard, a missing notebook is taken for an empty one
createBlockUnguarded(type, position) ==
  /\ calls < MaxCalls
  /\ calls' = calls + 1
  /\ lastCall' = [op |-> "createBlock", type |-> type, position |-> position]
  /\ UNCHANGED routeVars
  /\ createBlockOn(IF rendered = null THEN EmptyNotebook ELSE rendered, type, position)

\* createBlock: throws when the notebook it reads is null
createBlock(type, position) ==
  /\ calls < MaxCalls
  /\ calls' = calls + 1
  /\ lastCall' = [op |-> "createBlock", type |-> type, position |-> position]
  /\ UNCHANGED routeVars
  /\ IF rendered = null
       THEN /\ thrown' = "No notebook loaded"
            /\ UNCHANGED <<heap, notebook, selectedBlockId, rendered, fetches, returned,
                           consoleErrors, nextId, clock>>
       ELSE createBlockOn(rendered, type, position)

\* what fetch does to the awaiting call: it resolves with any HTTP response ("ok", or
\* "error" for a failure status) and rejects ("rejected") when the request cannot be made
FetchOutcomes == {"ok", "error", "rejected"}

\* mutant of fetchSettles: no try/catch, a rejected fetch makes createBlock fail
fetchSettlesUncaught(id, outcome) ==
  /\ id \in DOMAIN fetches
  /\ fetches[id].status = "pending"
  /\ fetches' = [fetches EXCEPT ![id].status = outcome]
  /\ returned' = IF outcome = "rejected" THEN returned ELSE returned \cup {id}
  /\ thrown' = IF outcome = "rejected" THEN "Failed to fetch" ELSE thrown
  /\ UNCHANGED <<heap, notebook, selectedBlockId, rendered, consoleErrors, nextId, clock,
                 calls, lastCall>>
  /\ UNCHANGED routeVars

\* the fetch of a suspended createBlock settles; the call logs a rejection and returns id
fetchSettles(id, outcome) ==
  /\ id \in DOMAIN fetches
  /\ fetches[id].status = "pending"
  /\ fetches' = [fetches EXCEPT ![id].status = outcome]
  /\ consoleErrors' = IF outcome = "rejected" THEN consoleErrors \cup {id} ELSE consoleErrors
  /\ returned' = returned \cup {id}
  /\ UNCHANGED <<heap, notebook, selectedBlockId, rendered, nextId, clock, calls,
                 lastCall, thrown>>
  /\ UNCHANGED routeVars

Next ==
  \/ \E nb \in {EmptyNotebook, LoadedNotebook} : setNotebook(nb)
  \/ render
  \/ \E id \in KnownIds \cup {nullId} : selectBlock(id)
  \/ \E id \in KnownIds, updates \in Payloads : updateBlock(id, updates)
  \/ \E type \in BlockTypes, position \in Positions \cup {undefined} : createBlock(type, position)
  \/ \E id \in DOMAIN fetches, outcome \in FetchOutcomes : fetchSettles(id, outcome)

Spec == Init /\ [][Next]_vars

\* ------------------------------------------------- file access endpoint
\* mutant of GET: a file the storage does not hold is answered with 404
GETNotFound(path, outcome) ==
  LET joined == join(path)
  IN  /\ outcome \in getFileOutcomes(joined)
      /\ storageCall' = [op |-> "getFile", path |-> joined, outcome |-> outcome]
      /\ IF outcome = "ok"
           THEN /\ response' = [status |-> 200, body |-> [content |-> storage[joined]]]
                /\ UNCHANGED serverErrors
           ELSE /\ serverErrors' =
                     serverErrors \cup {[msg |-> "Error fetching file", path |-> joined]}
                /\ response' = IF outcome = "notFound"
                                 THEN [status |-> 404, body |-> [error |-> "File not found"]]
                                 ELSE [status |-> 500, body |-> [error |-> "Failed to fetch file"]]
      /\ UNCHANGED storage
      /\ UNCHANGED nbVars

\* GET /api/files/[...path]: the content from the storage service, or the error response
GET(path, outcome) ==
  LET joined == join(path)
  IN  /\ outcome \in getFileOutcomes(joined)
      /\ storageCall' = [op |-> "getFile", path |-> joined, outcome |-> outcome]
      /\ IF outcome = "ok"
           THEN /\ response' = [status |-> 200, body |-> [content |-> storage[joined]]]
                /\ UNCHANGED serverErrors
           ELSE /\ serverErrors' =
                     serverErrors \cup {[msg |-> "Error fetching file", path |-> joined]}
                /\ response' = [status |-> 500, body |-> [error |-> "Failed to fetch file"]]
      /\ UNCHANGED storage
      /\ UNCHANGED nbVars

\* mutant of DELETE: deleteFile is not awaited, its failure is not caught
DELETEUnawaited(path, outcome) ==
  LET joined == join(path)
  IN  /\ outcome \in deleteFileOutcomes(joined)
      /\ storageCall' = [op |-> "deleteFile", path |-> joined, outcome |-> outcome]
      /\ storage' = IF outcome = "ok"
                      THEN [f \in DOMAIN storage \ {joined} |-> storage[f]]
                      ELSE storage
      /\ response' = [status |-> 200, body |-> [success |-> TRUE]]
      /\ UNCHANGED serverErrors
      /\ UNCHANGED nbVars

\* DELETE /api/files/[...path]: success once the storage service has deleted the file
DELETE(path, outcome) ==
  LET joined == join(path)
  IN  /\ outcome \in deleteFileOutcomes(joined)
      /\ storageCall' = [op |-> "deleteFile", path |-> joined, outcome |-> outcome]
      /\ IF outcome = "ok"
           THEN /\ storage' = [f \in DOMAIN storage \ {joined} |-> storage[f]]
                /\ response' = [status |-> 200, body |-> [success |-> TRUE]]
                /\ UNCHANGED serverErrors
           ELSE /\ serverErrors' =
                     serverErrors \cup {[msg |-> "Error deleting file", path |-> joined]}
                /\ response' = [status |-> 500, body |-> [error |-> "Failed to delete file"]]
                /\ UNCHANGED storage
      /\ UNCHANGED nbVars

StorageOutcomes == {"ok", "notFound", "ioError"}

RouteNext ==
  \/ \E path \in RoutePaths, outcome \in StorageOutcomes : GET(path, outcome)
  \/ \E path \in RoutePaths, outcome \in StorageOutcomes : DELETE(path, outcome)

RouteSpec == Init /\ [][RouteNext]_vars

\* ------------------------------------------------------- reading a step
\* the step is a call of the handler op
Called(op) == calls' = calls + 1 /\ lastCall'.op = op

\* the step is a createBlock call that passed its guard
Inserted == Called("createBlock") /\ rendered # null

\* the step is an updateBlock call on a loaded notebook
Updated == Called("updateBlock") /\ rendered # null

\* the blocks of the notebook the call read, and the blocks the call added
Existing == Range(rendered.blocks)
Added == Range(notebook'.blocks) \ Range(rendered.blocks)

IdsOf(nb, h) == {h[a].id : a \in Range(nb.blocks)}
PositionsOf(nb, h) == [i \in 1..Len(nb.blocks) |-> h[nb.blocks[i]].position]
IndexOf(blocks, a) == CHOOSE i \in 1..Len(blocks) : blocks[i] = a

PositionsDistinct(nb, h) ==
  \A i, j \in 1..Len(nb.blocks) :
    i # j => h[nb.blocks[i]].position # h[nb.blocks[j]].position

StrictlyIncreasing(nb, h) ==
  \A i \in 1..(Len(nb.blocks) - 1) :
    h[nb.blocks[i]].position < h[nb.blocks[i + 1]].position

\* ---------------------------------------------------------------- C1
\* C1: updateBlock never changes the type of a block: after updateBlock(id, payload)
\* every block that carried that id has the type it had before the call, whatever
\* the payload holds.  (Violated: a payload with a type field overwrites it.)
C1_TypeNeverChanges ==
  [][Updated =>
       \A i \in 1..Len(rendered.blocks) :
         heap[rendered.blocks[i]].id = lastCall'.id =>
           heap'[notebook'.blocks[i]].type = heap[rendered.blocks[i]].type]_vars

\* ---------------------------------------------------------------- C2
\* C2: any createBlock call, with an explicit or an omitted position, on a notebook
\* whose positions are pairwise distinct leaves the positions pairwise distinct.
\* (Violated: an omitted position takes the block count, which a block may hold.)
C2_AnyInsertKeepsPositionsDistinct ==
  [][(Inserted /\ PositionsDistinct(rendered, heap)) =>
       PositionsDistinct(notebook', heap')]_vars

\* ---------------------------------------------------------------- C3
\* C3: a createBlock call with an explicit position on a notebook whose positions are
\* pairwise distinct (or that is empty) yields pairwise distinct positions, and the
\* stored list, sorted by the call, is strictly increasing; by induction this holds
\* after every sequence of such calls.
C3_ExplicitInsertKeepsPositionsUnique ==
  [][(Inserted /\ lastCall'.position # undefined /\ PositionsDistinct(rendered, heap)) =>
       (PositionsDistinct(notebook', heap') /\ StrictlyIncreasing(notebook', heap'))]_vars

\* an explicit insert at the position a block already holds has acted
C3_Witness ==
  /\ lastCall.op = "createBlock" /\ thrown = NoError
  /\ notebook # null /\ rendered = LoadedNotebook
  /\ lastCall.position = 1
  /\ PositionsOf(notebook, heap) = <<0, 1, 2>>
  /\ heap[notebook.blocks[3]].id = 102

\* ---------------------------------------------------------------- C4
\* C4: createBlock(type, p) with an explicit p adds one to the position of every
\* pre-existing block at a position >= p, leaves the others alone, keeps all of them
\* in the notebook and gives the one new block position p.
C4_ExplicitInsertShifts ==
  [][(Inserted /\ lastCall'.position # undefined) =>
       LET p == lastCall'.position
       IN  /\ \A a \in Existing :
                /\ a \in Range(notebook'.blocks)
                /\ heap'[a].position =
                     IF heap[a].position >= p THEN heap[a].position + 1
                                              ELSE heap[a].position
           /\ Cardinality(Added) = 1
           /\ \A a \in Added : heap'[a].position = p]_vars

\* the example: positions [0,1,2], createBlock('markdown', 1), positions [0,1,2,3]
C4_Witness ==
  /\ lastCall = [op |-> "createBlock", type |-> "markdown", position |-> 1]
  /\ notebook # null /\ rendered # null
  /\ Len(rendered.blocks) = 3
  /\ PositionsOf(notebook, heap) = <<0, 1, 2, 3>>
  /\ notebook.blocks[2] \notin Range(rendered.blocks)
  /\ heap[notebook.blocks[2]].type = "markdown"

\* ---------------------------------------------------------------- C5
\* C5: createBlock keeps the relative order of pre-existing blocks: of two blocks of
\* the notebook the call read, the one at the smaller position is still at the smaller
\* position, and stored first, after the call, explicit position or not.
C5_InsertKeepsRelativeOrder ==
  [][Inserted =>
       \A a, b \in Existing :
         heap[a].position < heap[b].position =>
           /\ heap'[a].position < heap'[b].position
           /\ IndexOf(notebook'.blocks, a) < IndexOf(notebook'.blocks, b)]_vars

\* a block was inserted between two pre-existing blocks
C5_Witness ==
  /\ lastCall.op = "createBlock" /\ thrown = NoError
  /\ notebook # null /\ rendered = LoadedNotebook
  /\ Len(notebook.blocks) = 3
  /\ heap[notebook.blocks[1]].id = 101
  /\ heap[notebook.blocks[3]].id = 102
  /\ heap[notebook.blocks[1]].position < heap[notebook.blocks[3]].position

C7_CreateWithoutNotebookThrows ==
  [][(Called("createBlock") /\ notebook = null) =>
       /\ thrown' = "No notebook loaded"
       /\ notebook' = null
       /\ selectedBlockId' = selectedBlockId
       /\ fetches' = fetches
       /\ heap' = heap /\ returned' = returned /\ nextId' = nextId]_vars

\* createBlock has been called with no notebook loaded, after a block was selected
C7_Witness ==
  /\ lastCall.op = "createBlock"
  /\ thrown = "No notebook loaded"
  /\ notebook = null
  /\ selectedBlockId = GhostId

\* ---------------------------------------------------------------- C8
\* C8: when the file-creation request of a createBlock call fails (an error response
\* or a rejected fetch), nothing is rolled back and nothing is thrown: the notebook
\* and its blocks are what they were, and the call returns the new block's id.
C8_FetchFailureNotSurfaced ==
  [][\A id \in DOMAIN fetches :
       (fetches[id].status = "pending" /\ fetches'[id].status \in {"error", "rejected"}) =>
         /\ notebook' = notebook /\ heap' = heap /\ rendered' = rendered
         /\ id \in returned'
         /\ thrown' = thrown]_vars

\* a call whose fetch was rejected has returned its id, block and file still in place
C8_Witness ==
  \E id \in returned :
    /\ fetches[id].status = "rejected"
    /\ notebook # null
    /\ id \in IdsOf(notebook, heap)
    /\ \E i \in 1..Len(notebook.files) : notebook.files[i].path[3] = id
    /\ thrown = NoError

C10_AppendTakesBlockCount ==
  [][(Inserted /\ lastCall'.position = undefined) =>
       /\ Cardinality(Added) = 1
       /\ \A a \in Added : heap'[a].position = Len(rendered.blocks)
       /\ \A a \in Existing :
            /\ a \in Range(notebook'.blocks)
            /\ heap'[a].position = heap[a].position]_vars

\* a block was appended to a notebook of two blocks
C10_Witness ==
  /\ lastCall.op = "createBlock" /\ thrown = NoError
  /\ lastCall.position = undefined
  /\ notebook # null /\ rendered = LoadedNotebook
  /\ PositionsOf(notebook, heap) = <<0, 1, 2>>
  /\ heap[notebook.blocks[3]].id = nextId - 1

C12_InsertAddsOneBlockWithFreshId ==
  [][/\ Inserted =>
          /\ Len(notebook'.blocks) = Len(rendered.blocks) + 1
          /\ Cardinality(Added) = 1
          /\ \A a \in Added :
               /\ heap'[a].type = lastCall'.type
               /\ heap'[a].id \notin IdsOf(rendered, heap) \cup IdsOf(notebook, heap)
               /\ DOMAIN fetches' \ DOMAIN fetches = {heap'[a].id}
               /\ fetches'[heap'[a].id].path = heap'[a].filePath
     /\ returned' \ returned \subseteq DOMAIN fetches]_vars

\* a python block was added between the two blocks of the notebook and its id returned
C12_Witness ==
  /\ lastCall.op = "createBlock" /\ lastCall.type = "python" /\ thrown = NoError
  /\ notebook # null /\ rendered = LoadedNotebook
  /\ Len(notebook.blocks) = 3
  /\ heap[notebook.blocks[2]].id = nextId - 1
  /\ heap[notebook.blocks[2]].type = "python"
  /\ nextId - 1 \in returned

\* --------------------------------------------------------------- C15
\* C15: selectBlock(id) makes id the selected block id, for null and for an id no
\* block of the notebook carries as well, and leaves the notebook and its blocks alone.
C15_SelectSetsAnyId ==
  [][Called("selectBlock") =>
       /\ selectedBlockId' = lastCall'.id
       /\ notebook' = notebook /\ rendered' = rendered /\ heap' = heap
       /\ thrown' = NoError]_vars

\* an id that no block carries is selected in a notebook with blocks
C15_Witness ==
  /\ lastCall = [op |-> "selectBlock", id |-> GhostId]
  /\ selectedBlockId = GhostId
  /\ notebook = LoadedNotebook /\ rendered = LoadedNotebook
  /\ GhostId \notin IdsOf(notebook, heap)

\* --------------------------------------------------------------- C16
\* the block createBlock made for id, and its file descriptor, are in the notebook nb
Present(nb, h, id) ==
  /\ \E a \in Range(nb.blocks) : h[a].filePath[3] = id
  /\ \E i \in 1..Len(nb.files) : nb.files[i].path[3] = id

\* C16: blocks and files are append-only: a block and its file descriptor, added by a
\* createBlock call that has returned its id, are still in the notebook after any later
\* createBlock or updateBlock call, also one made from the same render as that call.
\* (Violated: the later call stores a notebook built from the value it closed over.)
C16_BlocksAndFilesAppendOnly ==
  [][(Called("createBlock") \/ Called("updateBlock")) =>
       \A id \in returned :
         (notebook # null /\ Present(notebook, heap, id)) => Present(notebook', heap', id)]_vars

\* --------------------------------------------------------------- C17
\* C17: in every reachable state the stored block list is in strictly increasing
\* position order.  (Violated: updateBlock stores a payload position without sorting,
\* and an append can take a position already held.)
C17_StoredListStrictlyIncreasing ==
  notebook # null => StrictlyIncreasing(notebook, heap)

\* --------------------------------------------------------------- C18
\* C18: in every reachable state the ids of the blocks of the notebook are pairwise
\* distinct.  (Violated: updateBlock stores a payload id another block carries.)
C18_IdsPairwiseDistinct ==
  notebook # null =>
    \A i, j \in 1..Len(notebook.blocks) :
      i # j => heap[notebook.blocks[i]].id # heap[notebook.blocks[j]].id

\* --------------------------------------------------------------- C19
\* C19: createBlock with an explicit position leaves the notebook value it read as it
\* was: the block records of that value keep their positions, so a second call from
\* the same render shifts from the same positions.  (Violated: the loop adds one to
\* the position of the records that value shares with the new array.)
C19_InsertLeavesReadValueAlone ==
  [][(Inserted /\ lastCall'.position # undefined) =>
       \A a \in Existing : heap'[a].position = heap[a].position]_vars

Requested(op) == routeVars' # routeVars /\ storageCall'.op = op

\* C13: GET answers with { content }, the content the storage service gave, when
\* getFile succeeds, and with status 500 and { error: 'Failed to fetch file' } when it
\* fails, the same for a file that is not there as for any other failure.
C13_GetContentOrUniform500 ==
  [][Requested("getFile") =>
       response' =
         IF storageCall'.outcome = "ok"
           THEN [status |-> 200, body |-> [content |-> storage[storageCall'.path]]]
           ELSE [status |-> 500, body |-> [error |-> "Failed to fetch file"]]]_vars

\* GET /api/files/a/b.txt for a file the storage no longer holds was answered with 500
C13_Witness ==
  /\ storageCall = [op |-> "getFile", path |-> <<"a", "/", "b.txt">>, outcome |-> "notFound"]
  /\ <<"a", "/", "b.txt">> \notin DOMAIN storage
  /\ response = [status |-> 500, body |-> [error |-> "Failed to fetch file"]]
  /\ [msg |-> "Error fetching file", path |-> <<"a", "/", "b.txt">>] \in serverErrors

\* --------------------------------------------------------------- C14
\* C14: DELETE answers { success: true } exactly when deleteFile for the joined path
\* completed without failure, and with status 500 and an { error } body otherwise.
C14_DeleteSuccessOnlyWhenDeleted ==
  [][Requested("deleteFile") =>
       /\ storageCall'.outcome = "ok" =>
            response' = [status |-> 200, body |-> [success |-> TRUE]]
       /\ storageCall'.outcome # "ok" =>
            /\ response'.status = 500
            /\ DOMAIN response'.body = {"error"}
            /\ response'.body.error = "Failed to delete file"]_vars

\* DELETE /api/files/a/b.txt failed in the storage service and was answered with 500
C14_Witness ==
  /\ storageCall = [op |-> "deleteFile", path |-> <<"a", "/", "b.txt">>, outcome |-> "ioError"]
  /\ <<"a", "/", "b.txt">> \in DOMAIN storage
  /\ response = [status |-> 500, body |-> [error |-> "Failed to delete file"]]

====
